---- MODULE Spec2Model ----
(***************************************************************************)
(* DataSen: the Flask front end (src/src/app.py), the command line loop    *)
(* (src/src/main.py), the LangChain agent wrapper                          *)
(* (src/src/agent/data_agent.py) and the utilities                         *)
(* (src/src/utils/data_loader.py, src/src/utils/text_processor.py).        *)
(*                                                                         *)
(* Spec      the web application: browser sessions (signed cookies), the   *)
(*           request threads of the server, the upload folder and the one  *)
(*           module-global DataAgent with its conversation memory.         *)
(* SpecAgent the command line loop of main.py with its own DataAgent, and  *)
(*           a direct call of DataAnalysisTool._run.                       *)
(* SpecLoad  DataLoader.load_data called on a path of a file system.       *)
(* SpecSum   TextProcessor.generate_text_summary called on a text.         *)
(* SpecSim   TextProcessor.get_text_similarity called on two texts.        *)
(***************************************************************************)
EXTENDS Integers, Sequences, FiniteSets, TLC

VARIABLES
    cookie,     \* per browser session: the Flask session cookie (chat, data_path)
    uploads,    \* the files of UPLOAD_FOLDER: file name -> content
    memory,     \* agent.memory.chat_memory.messages of the module-global agent
    req,        \* the request threads of the server
    cli,        \* the command line process: args.data, its agent's memory, last output
    call,       \* a direct call of a library function: its name and arguments
    ret         \* what that call returned or raised

webVars == <<cookie, uploads, memory, req>>
cliVars == <<cli>>
fnVars == <<call, ret>>

vars == <<cookie, uploads, memory, req, cli, call, ret>>

-----------------------------------------------------------------------------
(* Bounds of the model *)

NumSessions == 2
NumThreads == 2
MaxChat == 2
MaxMem == 6
MaxCliMem == 6

Sessions == 1..NumSessions
Threads == 1..NumThreads

\* request.form.get('question')
Questions == {"q1"}

\* file names as the browser sends them, and what an uploaded file holds
ClientNames == {"a.csv", "../a.csv", "b.csv"}
Contents == {"csv", "garbage"}
Missing == "missing"

None == "None"

-----------------------------------------------------------------------------
(* app.py: names and constants *)

NoDataMsg == "Please upload a CSV file first."

UPLOAD_FOLDER == "uploads/"

\* werkzeug.utils.secure_filename on the names of ClientNames: the directory
\* part is dropped
secure_filename(name) ==
    IF name = "../a.csv" THEN "a.csv" ELSE name

FileNames == {secure_filename(n) : n \in ClientNames}

Paths == {UPLOAD_FOLDER \o f : f \in FileNames}

\* What the file at an upload path holds
FileAt(files, p) ==
    IF p \in Paths THEN files[CHOOSE f \in FileNames : UPLOAD_FOLDER \o f = p]
    ELSE Missing

Turn(q, a) == [user |-> q, assistant |-> a]

HumanMessage(c) == [type |-> "human", content |-> c]
AIMessage(c) == [type |-> "ai", content |-> c]

-----------------------------------------------------------------------------
(* data_agent.py *)

ErrorPrefix == "Error in analysis: "

\* A result of a call: a returned text, or an exception that left the call
Return(t) == [raised |-> FALSE, text |-> t]
Raise(m) == [raised |-> TRUE, text |-> m]

\* pd.read_csv(path), by what the file at the path holds: str(e) of what it
\* raises, or "ok"
ReadCsv(file, p) ==
    IF file = Missing THEN Raise("No such file or directory: " \o p)
    ELSE IF file = "garbage" THEN Raise("Error tokenizing data")
    ELSE Return("ok")

\* What the external language model and the tools can do in one agent.run:
\*   the model fails (str(e) possibly empty), a tool raises, or a final answer
LLMFailures == {""}
FinalAnswers == {"Final answer"}

\* BaseTool.run hands DataAnalysisTool._run the one action input of the model:
\* _run(query, data) lacks its second argument
ToolCallRaises == "_run() missing 1 required positional argument: 'data'"

AgentOutcomes ==
    { Raise(m) : m \in LLMFailures \cup {ToolCallRaises} }
        \cup { Return(t) : t \in FinalAnswers }

\* AgentExecutor.run(query) with memory: the memory is saved (input, output) only
\* when the chain ends without an exception
AgentRunMemory(mem, query, out) ==
    IF out.raised THEN mem
    ELSE mem \o <<HumanMessage(query), AIMessage(out.text)>>

\* The except clause returning str(e) alone
AnalyzeCatchNoPrefix(res) ==
    IF res.raised THEN Return(res.text) ELSE res

\* DataAgent.analyze, the except clause: every Exception becomes a text
AnalyzeCatch(res) ==
    IF res.raised THEN Return(ErrorPrefix \o res.text) ELSE res

\* A table handed to DataAnalysisTool._run: the dtypes of its columns, or an
\* object that is no DataFrame
Dtypes == {"int64", "float64", "object"}
MaxCols == 2
NotAFrame == [frame |-> FALSE, cols |-> <<>>]
ToolData ==
    {NotAFrame} \cup
    {[frame |-> TRUE, cols |-> c] : c \in UNION {[1..n -> Dtypes] : n \in 0..MaxCols}}

\* data.select_dtypes(include=['int64', 'float64']).columns
NumericCols(data) == {i \in DOMAIN data.cols : data.cols[i] \in {"int64", "float64"}}

\* "\n".join(insights): one line per numeric column, in column order
RECURSIVE InsightLines(_, _)
InsightLines(data, i) ==
    IF i > Len(data.cols) THEN ""
    ELSE IF i \in NumericCols(data)
        THEN "col: Mean=1.00, Std=0.00\n" \o InsightLines(data, i + 1)
    ELSE InsightLines(data, i + 1)

\* DataAnalysisTool._run, the try body (lines 26-40): describe() of a frame
\* without columns raises, as does every attribute of an object that is no frame
DataAnalysisToolBody(query, data) ==
    IF ~data.frame
        THEN Raise("'NoneType' object has no attribute 'select_dtypes'")
    ELSE IF NumericCols(data) = {}
        THEN Raise("Cannot describe a DataFrame without columns")
    ELSE Return("Analysis Results:\nstats\n\nCorrelations:\ncorr\n\nInsights:\n"
                    \o InsightLines(data, 1))

\* DataAnalysisTool._run, the except clause (lines 41-42)
DataAnalysisToolCatch(res) ==
    IF res.raised THEN Return("Error in analysis: " \o res.text) ELSE res

DataAnalysisToolRun(query, data) ==
    DataAnalysisToolCatch(DataAnalysisToolBody(query, data))

\* DataAgent.analyze(query, data_path) as one call, lines 98-109: `rd` is what
\* pd.read_csv does and `out` what agent.run does.  The result, the memory after
\* the call, what the try body did, and whether agent.run was reached.
Analyze(mem, query, data_path, rd, out) ==
    IF data_path # None /\ rd.raised
        THEN [res |-> AnalyzeCatch(rd), memory |-> mem, body |-> rd, ran |-> FALSE]
    ELSE LET m1 == IF data_path # None
                     THEN Append(mem, HumanMessage("Data loaded from " \o data_path))
                     ELSE mem
         IN  [res |-> AnalyzeCatch(out), memory |-> AgentRunMemory(m1, query, out),
              body |-> out, ran |-> TRUE]

-----------------------------------------------------------------------------
(* The states in which a part of the program is not running *)

Pending == [raised |-> FALSE, text |-> "pending"]
CliOff ==
    [pc |-> "off", data |-> None, file |-> Missing, memory |-> <<>>,
     last |-> Pending, body |-> Pending, ran |-> FALSE]
NoCall == [fn |-> None]
NotCalled == [done |-> FALSE]
Done(v) == [done |-> TRUE, val |-> v]

-----------------------------------------------------------------------------
(* app.py: the request handlers.  The server is threaded (app.run): a request *)
(* thread opens the session from the cookie the browser sent and the browser  *)
(* stores the cookie of the response.  A request that calls agent.analyze     *)
(* waits for pandas and for the language model between the two; the other     *)
(* requests are answered at once.                                             *)

EmptySession == [has_chat |-> FALSE, chat |-> <<>>, data_path |-> None]

IdleReq == [pc |-> "idle", sid |-> 0, sess |-> EmptySession, question |-> ""]

\* index, lines 61-62: if 'chat' not in session: session['chat'] = []
IndexOpen(sess) ==
    IF sess.has_chat THEN sess ELSE [sess EXCEPT !.has_chat = TRUE, !.chat = <<>>]

\* The threads that are inside agent.analyze
InAnalyze == {t \in Threads : req[t].pc \in {"analyze", "run"}}

\* A request is served by the first free thread of the server
FreeThread(t) ==
    /\ req[t].pc = "idle"
    /\ \A u \in Threads : u < t => req[u].pc # "idle"

\* index, lines 72-73: chat.append({'user': question, 'assistant': answer});
\* session['chat'] = chat.  An exception that leaves analyze leaves the handler
\* too: a 500 response, and the session is not saved.
IndexAppend(sess, q, res) ==
    IF res.raised THEN sess
    ELSE [sess EXCEPT !.chat = Append(sess.chat, Turn(q, res.text))]

\* The session of the response replaces the cookie of the browser
SaveSession(s, sess) == [cookie EXCEPT ![s] = sess]

\* GET /, or POST / without a question: lines 61-67, 74
IndexGet(s) ==
    /\ \E t \in Threads : FreeThread(t)
    /\ cookie' = SaveSession(s, IndexOpen(cookie[s]))
    /\ UNCHANGED <<uploads, memory, req>>

\* POST / with a question and no data_path in the session: lines 65-74
IndexPostNoData(s, q) ==
    /\ \E t \in Threads : FreeThread(t)
    /\ cookie[s].data_path = None
    /\ Len(cookie[s].chat) < MaxChat
    /\ cookie' = SaveSession(s, IndexAppend(IndexOpen(cookie[s]), q, Return(NoDataMsg)))
    /\ UNCHANGED <<uploads, memory, req>>

\* POST / with a question and a data_path: lines 61-69, up to agent.analyze
IndexPost(t, s, q) ==
    /\ FreeThread(t)
    /\ cookie[s].data_path # None
    /\ Len(cookie[s].chat) < MaxChat
    /\ Len(memory) + 3 * (Cardinality(InAnalyze) + 1) <= MaxMem
    /\ req' = [req EXCEPT ![t] = [pc |-> "analyze", sid |-> s,
                                  sess |-> IndexOpen(cookie[s]), question |-> q]]
    /\ UNCHANGED <<cookie, uploads, memory>>

\* agent.analyze, lines 101-104: pd.read_csv and add_user_message; when read_csv
\* raises, lines 108-109 and the rest of index
AnalyzeLoad(t) ==
    /\ req[t].pc = "analyze"
    /\ LET r == req[t]
           rd == ReadCsv(FileAt(uploads, r.sess.data_path), r.sess.data_path)
       IN  IF rd.raised
             THEN /\ cookie' = SaveSession(r.sid,
                                   IndexAppend(r.sess, r.question, AnalyzeCatch(rd)))
                  /\ req' = [req EXCEPT ![t] = IdleReq]
                  /\ UNCHANGED memory
             ELSE /\ req' = [req EXCEPT ![t].pc = "run"]
                  /\ memory' = Append(memory,
                          HumanMessage("Data loaded from " \o r.sess.data_path))
                  /\ UNCHANGED cookie
    /\ UNCHANGED uploads

\* agent.analyze, lines 106-109: self.agent.run(query) and the return; then the
\* rest of index
AgentRun(t, out) ==
    /\ req[t].pc = "run"
    /\ memory' = AgentRunMemory(memory, req[t].question, out)
    /\ cookie' = SaveSession(req[t].sid,
                     IndexAppend(req[t].sess, req[t].question, AnalyzeCatch(out)))
    /\ req' = [req EXCEPT ![t] = IdleReq]
    /\ UNCHANGED uploads

\* POST /upload with a file, lines 80-88
Upload(s, name, content) ==
    /\ \E t \in Threads : FreeThread(t)
    /\ uploads' = [uploads EXCEPT ![secure_filename(name)] = content]
    /\ cookie' = SaveSession(s, [cookie[s] EXCEPT
                     !.data_path = UPLOAD_FOLDER \o secure_filename(name),
                     !.has_chat = TRUE, !.chat = <<>>])
    /\ UNCHANGED <<memory, req>>

\* POST /upload without a file, lines 78-82: redirect, nothing changes
UploadNoFile(s) ==
    /\ \E t \in Threads : FreeThread(t)
    /\ UNCHANGED <<cookie, uploads, memory, req>>

WebOff ==
    /\ cookie = [s \in Sessions |-> EmptySession]
    /\ uploads = [f \in FileNames |-> Missing]
    /\ memory = <<>>
    /\ req = [t \in Threads |-> IdleReq]

Init ==
    /\ cookie = [s \in Sessions |-> EmptySession]
    /\ uploads = [f \in FileNames |-> Missing]
    /\ memory = <<>>
    /\ req = [t \in Threads |-> IdleReq]
    /\ cli = CliOff
    /\ call = NoCall
    /\ ret = NotCalled

Next ==
    /\ UNCHANGED <<cliVars, fnVars>>
    /\ \/ \E s \in Sessions : IndexGet(s)
       \/ \E s \in Sessions, q \in Questions : IndexPostNoData(s, q)
       \/ \E t \in Threads, s \in Sessions, q \in Questions : IndexPost(t, s, q)
       \/ \E t \in Threads : AnalyzeLoad(t)
       \/ \E t \in Threads, out \in AgentOutcomes : AgentRun(t, out)
       \/ \E s \in Sessions, n \in ClientNames, c \in Contents : Upload(s, n, c)
       \/ \E s \in Sessions : UploadNoFile(s)

Spec == Init /\ [][Next]_vars

-----------------------------------------------------------------------------
(* main.py: the command line loop, one DataAgent of its own, single-threaded *)

CliData == "data.csv"

\* One turn of the loop with a question, lines 46-52: analyze with args.data,
\* or without a data path when --data was not given
CliAsk(q, out) ==
    /\ cli.pc = "loop"
    /\ Len(cli.memory) + 3 <= MaxCliMem
    /\ LET a == Analyze(cli.memory, q, cli.data, ReadCsv(cli.file, cli.data), out)
       IN  cli' = [cli EXCEPT !.memory = a.memory, !.last = a.res,
                              !.body = a.body, !.ran = a.ran]
    /\ UNCHANGED <<webVars, fnVars>>

\* 'help', lines 35-44: prints and continues
CliHelp ==
    /\ cli.pc = "loop"
    /\ UNCHANGED vars

\* 'exit', lines 32-34
CliExit ==
    /\ cli.pc = "loop"
    /\ cli' = [cli EXCEPT !.pc = "exited"]
    /\ UNCHANGED <<webVars, fnVars>>

\* DataAnalysisTool()._run(query, data) called directly
CallToolRun ==
    /\ call.fn = "_run"
    /\ ~ret.done
    /\ ret' = Done(DataAnalysisToolRun(call.query, call.data))
    /\ UNCHANGED <<webVars, cliVars, call>>

InitAgent ==
    /\ WebOff
    /\ cli \in {[CliOff EXCEPT !.pc = "loop", !.data = d, !.file = f] :
                  d \in {CliData}, f \in Contents \cup {Missing}}
               \cup {[CliOff EXCEPT !.pc = "loop"]}
    /\ call \in {[fn |-> "_run", query |-> q, data |-> d] :
                   q \in Questions, d \in ToolData}
    /\ ret = NotCalled

NextAgent ==
    \/ \E q \in Questions, out \in AgentOutcomes : CliAsk(q, out)
    \/ CliHelp
    \/ CliExit
    \/ CallToolRun

SpecAgent == InitAgent /\ [][NextAgent]_vars

-----------------------------------------------------------------------------
(* data_loader.py: DataLoader.load_data *)

\* An exception of a Python type
RaiseOf(type, msg, cause) == [raised |-> TRUE, type |-> type, text |-> msg, cause |-> cause]
Loaded == [raised |-> FALSE, type |-> "DataFrame", text |-> "", cause |-> None]

\* A path is a stem and an extension as written: os.path.splitext(path)
PathStr(path) == path.stem \o path.ext
Stems == {"data", "report"}
Exts == {".csv", ".CSV", ".json", ".xlsx", ".xls", ".txt", ""}

\* str.lower() on the extensions of Exts
LowerExt(ext) == IF ext = ".CSV" THEN ".csv" ELSE ext

\* What is at a path: nothing, a file its reader parses, or a file on which the
\* reader raises (the type of what pandas raises)
ParseFailures == {"ParserError", "ValueError", "UnicodeDecodeError"}
FileStates == {Missing, "good"} \cup ParseFailures

\* pd.read_csv / pd.read_json / pd.read_excel on the file
PdRead(file) ==
    IF file = "good" THEN Loaded
    ELSE RaiseOf(file, "cannot parse", None)

\* load_data, the try body, lines 31-38
LoadDataBody(path, file) ==
    LET file_ext == LowerExt(path.ext)
    IN  IF file_ext = ".csv" THEN PdRead(file)
        ELSE IF file_ext = ".json" THEN PdRead(file)
        ELSE IF file_ext \in {".xlsx", ".xls"} THEN PdRead(file)
        ELSE RaiseOf("ValueError", "Unsupported file format: " \o file_ext, None)

\* load_data, the except clause, lines 39-40: every Exception of the body,
\* the ValueError of line 38 included, is raised again as a plain Exception
LoadDataExcept(path, body) ==
    IF body.raised
        THEN RaiseOf("Exception",
                     "Error loading file " \o PathStr(path) \o ": " \o body.text,
                     body.type)
    ELSE body

\* DataLoader.load_data, lines 25-40
load_data(path, file) ==
    IF file = Missing
        THEN RaiseOf("FileNotFoundError", "File not found: " \o PathStr(path), None)
    ELSE LoadDataExcept(path, LoadDataBody(path, file))

LoadCalls ==
    {[fn |-> "load_data", path |-> [stem |-> st, ext |-> e], file |-> f] :
        st \in Stems, e \in Exts, f \in FileStates}

CallLoadData ==
    /\ call.fn = "load_data"
    /\ ~ret.done
    /\ ret' = Done(load_data(call.path, call.file))
    /\ UNCHANGED <<webVars, cliVars, call>>

InitLoad ==
    /\ WebOff
    /\ cli = CliOff
    /\ call \in LoadCalls
    /\ ret = NotCalled

NextLoad == CallLoadData

SpecLoad == InitLoad /\ [][NextLoad]_vars

-----------------------------------------------------------------------------
(* text_processor.py: a text is a sequence of characters *)

LowerLetters == {"a", "c", "d", "e", "g", "h", "i", "m", "n", "o", "r", "s", "t"}
UpperLetters == {"C", "T"}

\* str.lower() on one character
LowerChar(c) ==
    IF c = "C" THEN "c" ELSE IF c = "T" THEN "t" ELSE c

IsAlpha(c) == c \in LowerLetters \cup UpperLetters
IsSpace(c) == c = " "

\* str.split(): the maximal runs of characters that are not whitespace
RECURSIVE SplitFrom(_, _, _)
SplitFrom(text, i, word) ==
    IF i > Len(text) THEN (IF word = <<>> THEN <<>> ELSE <<word>>)
    ELSE IF IsSpace(text[i])
        THEN (IF word = <<>> THEN <<>> ELSE <<word>>) \o SplitFrom(text, i + 1, <<>>)
    ELSE SplitFrom(text, i + 1, Append(word, text[i]))

Split(text) == SplitFrom(text, 1, <<>>)

\* ' '.join(words)
RECURSIVE JoinSp(_)
JoinSp(words) ==
    IF words = <<>> THEN <<>>
    ELSE IF Len(words) = 1 THEN words[1]
    ELSE words[1] \o <<" ">> \o JoinSp(Tail(words))

\* preprocess_text, lines 37-46: lower(), re.sub(r'[^a-zA-Z\s]', '', text),
\* ' '.join(text.split())
preprocess_text(text) ==
    LET lowered == [i \in 1..Len(text) |-> LowerChar(text[i])]
        cleaned == SelectSeq(lowered, LAMBDA c : IsAlpha(c) \/ IsSpace(c))
    IN  JoinSp(Split(cleaned))

\* The words of the texts
W_the == <<"t", "h", "e">>
W_its == <<"i", "t", "s">>
W_cat == <<"c", "a", "t">>
W_cats == <<"c", "a", "t", "s">>
W_dog == <<"d", "o", "g">>
W_Cat == <<"C", "a", "t">>
W_42 == <<"4", "2">>
W_it_s == <<"i", "t", "'", "s">>

\* stopwords.words('english'), the part that the texts can hit
stop_words == {W_the, W_its, <<"i", "t">>, <<"o", "n">>, <<"a">>, <<"i">>, <<"s">>, <<"t">>,
               <<"d">>, <<"o">>, <<"m">>}

\* WordNetLemmatizer.lemmatize(token): a plural noun of WordNet goes to its
\* singular, every other token stays
WordNetNouns == {W_cat, W_dog}
lemmatize(token) ==
    IF /\ Len(token) > 1
       /\ token[Len(token)] = "s"
       /\ SubSeq(token, 1, Len(token) - 1) \in WordNetNouns
        THEN SubSeq(token, 1, Len(token) - 1)
    ELSE token

\* word_tokenize on a preprocessed text (lower case letters and single spaces)
word_tokenize(text) == Split(text)

\* [lemmatize(t) for t in tokens if t not in stop_words]
RECURSIVE FilterLemmatize(_)
FilterLemmatize(tokens) ==
    IF tokens = <<>> THEN <<>>
    ELSE IF tokens[1] \in stop_words THEN FilterLemmatize(Tail(tokens))
    ELSE <<lemmatize(tokens[1])>> \o FilterLemmatize(Tail(tokens))

\* tokenize_text, lines 58-68
tokenize_text(text) == FilterLemmatize(word_tokenize(preprocess_text(text)))

\* set(tokens)
TokenSet(tokens) == {tokens[i] : i \in DOMAIN tokens}

\* A float that is a quotient of two naturals, in lowest terms of the model:
\* the numerator and the denominator the code divides
Quotient(n, d) == [num |-> n, den |-> d]
Zero == Quotient(0, 1)
IsOne(x) == x.num = x.den /\ x.den > 0

\* The similarity that divides by the size of the first set
get_text_similarity_first(text1, text2) ==
    LET tokens1 == TokenSet(tokenize_text(text1))
        tokens2 == TokenSet(tokenize_text(text2))
        intersection == Cardinality(tokens1 \cap tokens2)
    IN  IF Cardinality(tokens1) > 0 THEN Quotient(intersection, Cardinality(tokens1))
        ELSE Zero

\* get_text_similarity, lines 147-154
get_text_similarity(text1, text2) ==
    LET tokens1 == TokenSet(tokenize_text(text1))
        tokens2 == TokenSet(tokenize_text(text2))
        intersection == Cardinality(tokens1 \cap tokens2)
        union == Cardinality(tokens1 \cup tokens2)
    IN  IF union > 0 THEN Quotient(intersection, union) ELSE Zero

\* The texts of the calls: up to MaxWords words joined by single spaces
MaxWords == 2
Vocabulary == {W_the, W_cat, W_cats, W_dog, W_Cat, W_42, W_it_s}
Texts == {JoinSp(ws) : ws \in UNION {[1..n -> Vocabulary] : n \in 0..MaxWords}}

SimCalls == {[fn |-> "get_text_similarity", text1 |-> a, text2 |-> b] :
                a \in Texts, b \in Texts}

CallSimilarity ==
    /\ call.fn = "get_text_similarity"
    /\ ~ret.done
    /\ ret' = Done(get_text_similarity(call.text1, call.text2))
    /\ UNCHANGED <<webVars, cliVars, call>>

InitSim ==
    /\ WebOff
    /\ cli = CliOff
    /\ call \in SimCalls
    /\ ret = NotCalled

NextSim == CallSimilarity

SpecSim == InitSim /\ [][NextSim]_vars

-----------------------------------------------------------------------------
(* text_processor.py: generate_text_summary *)

\* nltk.sent_tokenize: a sentence ends at a full stop that is followed by
\* whitespace or by the end of the text
RECURSIVE SentFrom(_, _, _)
SentFrom(text, i, sent) ==
    IF i > Len(text) THEN (IF sent = <<>> THEN <<>> ELSE <<sent>>)
    ELSE IF text[i] = "." /\ (i = Len(text) \/ IsSpace(text[i + 1]))
        THEN <<Append(sent, text[i])>> \o SentFrom(text, i + 1, <<>>)
    ELSE IF IsSpace(text[i]) /\ sent = <<>> THEN SentFrom(text, i + 1, <<>>)
    ELSE SentFrom(text, i + 1, Append(sent, text[i]))

sent_tokenize(text) == SentFrom(text, 1, <<>>)

\* Counter(tokens)[token]
RECURSIVE Count(_, _)
Count(tokens, token) ==
    IF tokens = <<>> THEN 0
    ELSE (IF tokens[1] = token THEN 1 ELSE 0) + Count(Tail(tokens), token)

\* sum(word_freq[token] for token in sentence_tokens), lines 176-177
RECURSIVE SumFreq(_, _)
SumFreq(tokens, sentence_tokens) ==
    IF sentence_tokens = <<>> THEN 0
    ELSE Count(tokens, sentence_tokens[1]) + SumFreq(tokens, Tail(sentence_tokens))

Score(tokens, sentence) == SumFreq(tokens, tokenize_text(sentence))

\* The keys of sentence_scores (a dict): each sentence once, in the order of
\* its first occurrence
RECURSIVE DictKeys(_, _)
DictKeys(sentences, seen) ==
    IF sentences = <<>> THEN <<>>
    ELSE IF sentences[1] \in seen THEN DictKeys(Tail(sentences), seen)
    ELSE <<sentences[1]>> \o DictKeys(Tail(sentences), seen \cup {sentences[1]})

\* sorted(items, key=score, reverse=True), lines 181-183: descending, equal
\* scores stay in their order
RECURSIVE SortedDesc(_, _)
SortedDesc(tokens, keys) ==
    IF keys = <<>> THEN <<>>
    ELSE LET best == CHOOSE i \in DOMAIN keys :
                        /\ \A j \in DOMAIN keys : Score(tokens, keys[j]) <= Score(tokens, keys[i])
                        /\ \A j \in 1..(i - 1) : Score(tokens, keys[j]) < Score(tokens, keys[i])
         IN  <<keys[best]>> \o
             SortedDesc(tokens, SubSeq(keys, 1, best - 1) \o SubSeq(keys, best + 1, Len(keys)))

\* The loop of lines 186-194: whole sentences while the sum of their lengths
\* stays within max_length, stopping at the first that does not fit
RECURSIVE Take(_, _, _)
Take(top_sentences, current_length, max_length) ==
    IF top_sentences = <<>> THEN <<>>
    ELSE IF current_length + Len(top_sentences[1]) <= max_length
        THEN <<top_sentences[1]>> \o
             Take(Tail(top_sentences), current_length + Len(top_sentences[1]), max_length)
    ELSE <<>>

\* generate_text_summary, lines 167-196: the sentences chosen and the text
\* returned, ' '.join(summary)
generate_text_summary(text, max_length) ==
    LET tokens == tokenize_text(text)
        sentences == sent_tokenize(text)
        top_sentences == SortedDesc(tokens, DictKeys(sentences, {}))
        summary == Take(top_sentences, 0, max_length)
    IN  [summary |-> summary, text |-> JoinSp(summary)]

\* The texts of the calls: up to MaxSents sentences of up to MaxSentWords words
MaxSents == 2
MaxSentWords == 2
MaxSummaryLen == 17
SumVocabulary == {W_the, W_cat, W_dog}
SumSentences ==
    {JoinSp(ws) \o <<".">> : ws \in UNION {[1..n -> SumVocabulary] : n \in 1..MaxSentWords}}
SumTexts == {JoinSp(ss) : ss \in UNION {[1..n -> SumSentences] : n \in 0..MaxSents}}

SumCalls == {[fn |-> "generate_text_summary", text |-> t, max_length |-> l] :
                t \in SumTexts, l \in 0..MaxSummaryLen}

CallSummary ==
    /\ call.fn = "generate_text_summary"
    /\ ~ret.done
    /\ ret' = Done(generate_text_summary(call.text, call.max_length))
    /\ UNCHANGED <<webVars, cliVars, call>>

InitSum ==
    /\ WebOff
    /\ cli = CliOff
    /\ call \in SumCalls
    /\ ret = NotCalled

NextSum == CallSummary

SpecSum == InitSum /\ [][NextSum]_vars

-----------------------------------------------------------------------------
(* text_processor.py: get_word_frequencies and extract_keywords *)

W_sat == <<"s", "a", "t">>
W_mat == <<"m", "a", "t">>

\* dict(Counter(tokens)), lines 80-81: the keys in the order of their first
\* occurrence; the value of key w is Count(tokens, w)
get_word_frequencies(text) == DictKeys(tokenize_text(text), {})

\* sorted(word_freq.items(), key=lambda x: x[1], reverse=True): descending
\* frequency, and Python's sort keeps equal keys in their order, also when
\* reverse=True
RECURSIVE SortedByFreq(_, _)
SortedByFreq(tokens, keys) ==
    IF keys = <<>> THEN <<>>
    ELSE LET best == CHOOSE i \in DOMAIN keys :
                        /\ \A j \in DOMAIN keys : Count(tokens, keys[j]) <= Count(tokens, keys[i])
                        /\ \A j \in 1..(i - 1) : Count(tokens, keys[j]) < Count(tokens, keys[i])
         IN  <<keys[best]>> \o
             SortedByFreq(tokens, SubSeq(keys, 1, best - 1) \o SubSeq(keys, best + 1, Len(keys)))

\* items[:n] for n >= 0
Prefix(items, n) == SubSeq(items, 1, IF n < Len(items) THEN n ELSE Len(items))

\* The keywords cut from a sort that puts equal frequencies in reverse order
extract_keywords_reversed_ties(text, top_n) ==
    LET tokens == tokenize_text(text)
        keys == get_word_frequencies(text)
        reversed == [i \in 1..Len(keys) |-> keys[Len(keys) + 1 - i]]
    IN  Prefix(SortedByFreq(tokens, reversed), top_n)

\* extract_keywords, lines 130-133
extract_keywords(text, top_n) ==
    Prefix(SortedByFreq(tokenize_text(text), get_word_frequencies(text)), top_n)

\* The texts of the calls: up to MaxKwWords words, and the text of the
\* documented example; top_n is a count
MaxKwWords == 4
MaxTopN == 3
KwVocabulary == {W_the, W_cat, W_cats, W_sat, W_mat}
\* "the cat sat on the mat the cat ran"
KwExample ==
    JoinSp(<<W_the, W_cat, W_sat, <<"o", "n">>, W_the, W_mat, W_the, W_cat, <<"r", "a", "n">> >>)
KwTexts ==
    {JoinSp(ws) : ws \in UNION {[1..n -> KwVocabulary] : n \in 0..MaxKwWords}} \cup {KwExample}

KwCalls == {[fn |-> "extract_keywords", text |-> t, top_n |-> n] :
               t \in KwTexts, n \in 0..MaxTopN}

CallKeywords ==
    /\ call.fn = "extract_keywords"
    /\ ~ret.done
    /\ ret' = Done(extract_keywords(call.text, call.top_n))
    /\ UNCHANGED <<webVars, cliVars, call>>

InitKw ==
    /\ WebOff
    /\ cli = CliOff
    /\ call \in KwCalls
    /\ ret = NotCalled

NextKw == CallKeywords

SpecKw == InitKw /\ [][NextKw]_vars

-----------------------------------------------------------------------------
(* data_loader.py: preprocess_data and get_data_info *)

\* The cells of a DataFrame: a number, a string, or a missing value (NaN, None,
\* NaT)
Num(v) == [isnull |-> FALSE, num |-> v, str |-> ""]
Str(x) == [isnull |-> FALSE, num |-> 0, str |-> x]
NaN == [isnull |-> TRUE, num |-> 0, str |-> ""]

\* A DataFrame is the sequence of its columns, each with its dtype and its
\* values; all columns have the same length.  The dtypes: float64 is selected
\* by include=[np.number], object by include=['object'], datetime64[ns] by
\* neither
ObjOrder == <<"A", "B">>
MaxRows == 2
MaxTableCols == 2
ColumnsOfLen(n) ==
    LET NumCells == {Num(20), Num(30), Num(40)}
        ObjCells == {Str(ObjOrder[i]) : i \in DOMAIN ObjOrder}
        DateCells == {Str("2024-01-01")}
    IN  {[dtype |-> "float64", vals |-> v] : v \in [1..n -> NumCells \cup {NaN}]}
        \cup {[dtype |-> "object", vals |-> v] : v \in [1..n -> ObjCells \cup {NaN}]}
        \cup {[dtype |-> "datetime64[ns]", vals |-> v] : v \in [1..n -> DateCells \cup {NaN}]}

\* The documented example: age = [20, 30, NaN, 40], city = ["A", "B", "A", "A"]
TableExample ==
    << [dtype |-> "float64", vals |-> <<Num(20), Num(30), NaN, Num(40)>>],
       [dtype |-> "object", vals |-> <<Str("A"), Str("B"), Str("A"), Str("A")>>] >>

Tables ==
    UNION {[1..k -> ColumnsOfLen(n)] : n \in 0..MaxRows, k \in 0..MaxTableCols}
    \cup {TableExample}

\* df.select_dtypes(include=...).columns: the positions of the columns
SelectDtypes(df, dtype) == {c \in DOMAIN df : df[c].dtype = dtype}

\* series.isnull().sum()
RECURSIVE NullCount(_)
NullCount(vals) ==
    IF vals = <<>> THEN 0
    ELSE (IF vals[1].isnull THEN 1 ELSE 0) + NullCount(Tail(vals))

\* The numbers of a column that are not missing, ascending
RECURSIVE SortedNums(_)
SortedNums(vals) ==
    LET present == SelectSeq(vals, LAMBDA c : ~c.isnull)
    IN  IF present = <<>> THEN <<>>
        ELSE LET least == CHOOSE i \in DOMAIN present :
                              \A j \in DOMAIN present : present[i].num <= present[j].num
             IN  <<present[least].num>> \o
                 SortedNums(SubSeq(present, 1, least - 1) \o
                            SubSeq(present, least + 1, Len(present)))

\* series.median() (skipna): NaN for a column without numbers, the middle
\* number, or the mean of the two middle numbers (the numbers of the frames are
\* multiples of 10, their means are whole)
Median(vals) ==
    LET nums == SortedNums(vals)
        n == Len(nums)
    IN  IF n = 0 THEN NaN
        ELSE IF n % 2 = 1 THEN Num(nums[(n + 1) \div 2])
        ELSE Num((nums[n \div 2] + nums[n \div 2 + 1]) \div 2)

\* How often string x is a value of the column
RECURSIVE StrCount(_, _)
StrCount(vals, x) ==
    IF vals = <<>> THEN 0
    ELSE (IF ~vals[1].isnull /\ vals[1].str = x THEN 1 ELSE 0) + StrCount(Tail(vals), x)

\* series.mode() (dropna): the most frequent values, sorted; empty for a
\* column without values
Mode(vals) ==
    LET most(i) == /\ StrCount(vals, ObjOrder[i]) > 0
                   /\ \A j \in DOMAIN ObjOrder :
                          StrCount(vals, ObjOrder[j]) <= StrCount(vals, ObjOrder[i])
        modes == SelectSeq([i \in DOMAIN ObjOrder |-> i], most)
    IN  [i \in DOMAIN modes |-> Str(ObjOrder[modes[i]])]

\* series.fillna(value): the missing values replaced; fillna(NaN) fills
\* nothing
Fillna(vals, value) ==
    [i \in DOMAIN vals |-> IF vals[i].isnull THEN value ELSE vals[i]]

\* df_processed[col].fillna(value, inplace=True), lines 62 and 66: the fill
\* works on the Series that df_processed[col] returns.  Up to pandas 2 that
\* Series shares the values of df_processed and the fill shows in it; with
\* copy-on-write (pandas 3, or the option in pandas 2) the Series is a
\* temporary and df_processed keeps its missing values.  No version is pinned
\* in the repository.
FillnaInplace(col, value, writes_through) ==
    IF writes_through THEN [col EXCEPT !.vals = Fillna(col.vals, value)] ELSE col

\* preprocess_data, lines 54-68.  The objects after the call: df, the caller's
\* frame, and the result, either the frame returned or the KeyError of
\* mode()[0] on an object column without values
preprocess_data(df, writes_through) ==
    LET df_copy == df
        numeric_cols == SelectDtypes(df_copy, "float64")
        categorical_cols == SelectDtypes(df_copy, "object")
        df_processed ==
            [c \in DOMAIN df_copy |->
                IF c \in numeric_cols
                    THEN FillnaInplace(df_copy[c], Median(df_copy[c].vals), writes_through)
                ELSE IF c \in categorical_cols /\ Mode(df_copy[c].vals) # <<>>
                    THEN FillnaInplace(df_copy[c], Mode(df_copy[c].vals)[1], writes_through)
                ELSE df_copy[c]]
    IN  IF \E c \in categorical_cols : Mode(df_copy[c].vals) = <<>>
            THEN [raised |-> TRUE, type |-> "KeyError", df |-> df, out |-> <<>>]
        ELSE [raised |-> FALSE, type |-> "DataFrame", df |-> df, out |-> df_processed]

\* get_data_info, lines 81-95: shape, dtypes, missing_values, numeric_columns,
\* categorical_columns, and whether numeric_stats is present
get_data_info(df) ==
    [shape |-> <<(IF df = <<>> THEN 0 ELSE Len(df[1].vals)), Len(df)>>,
     dtypes |-> [c \in DOMAIN df |-> df[c].dtype],
     missing_values |-> [c \in DOMAIN df |-> NullCount(df[c].vals)],
     numeric_columns |-> SelectDtypes(df, "float64"),
     categorical_columns |-> SelectDtypes(df, "object"),
     has_numeric_stats |-> SelectDtypes(df, "float64") # {}]

\* get_data_info(preprocess_data(df)): what preprocess_data raised, or the
\* info of the frame it returned
RoundTrip(df, writes_through) ==
    LET pre == preprocess_data(df, writes_through)
    IN  IF pre.raised THEN [pre EXCEPT !.out = get_data_info(<<>>)]
        ELSE [pre EXCEPT !.out = get_data_info(pre.out)]

PrepCalls == {[fn |-> "preprocess_data", df |-> t, writes_through |-> w] :
                 t \in Tables, w \in BOOLEAN}

CallRoundTrip ==
    /\ call.fn = "preprocess_data"
    /\ ~ret.done
    /\ ret' = Done(RoundTrip(call.df, call.writes_through))
    /\ UNCHANGED <<webVars, cliVars, call>>

InitPrep ==
    /\ WebOff
    /\ cli = CliOff
    /\ call \in PrepCalls
    /\ ret = NotCalled

NextPrep == CallRoundTrip

SpecPrep == InitPrep /\ [][NextPrep]_vars

-----------------------------------------------------------------------------
(* text_processor.py: analyze_text_column *)

\* The cells of a text column: a string, or a missing value
TextCell(t) == [isnull |-> FALSE, text |-> t]
NullCell == [isnull |-> TRUE, text |-> <<>>]

\* str(value) of a cell, as astype(str) gives it: the string, or "nan"
AsStr(cell) == IF cell.isnull THEN <<"n", "a", "n">> ELSE cell.text

\* ' '.join(df[column].astype(str)), line 98
AllText(vals) == JoinSp([i \in DOMAIN vals |-> AsStr(vals[i])])

\* sum(len(word) * freq for word, freq in word_freq.items()), line 116
RECURSIVE WordLenSum(_, _)
WordLenSum(tokens, keys) ==
    IF keys = <<>> THEN 0
    ELSE Len(keys[1]) * Count(tokens, keys[1]) + WordLenSum(tokens, Tail(keys))

\* sum(word_freq.values()), line 104
RECURSIVE FreqSum(_, _)
FreqSum(tokens, keys) ==
    IF keys = <<>> THEN 0
    ELSE Count(tokens, keys[1]) + FreqSum(tokens, Tail(keys))

\* The slice [:10] of line 110
TopWords == 10

\* What analyze_text_column raised
ColumnError(type) ==
    [raised |-> TRUE, type |-> type, total_words |-> 0, unique_words |-> 0,
     most_common_words |-> <<>>, average_word_length |-> Zero]

\* The position of the column of that name in the frame, 0 if there is none
ColumnAt(df, column) ==
    IF \E c \in DOMAIN df : df[c].name = column
        THEN CHOOSE c \in DOMAIN df : df[c].name = column
    ELSE 0

\* analyze_text_column, lines 94-117; most_common_words is a dict, here the
\* pairs of word and frequency in its order
analyze_text_column(df, column) ==
    IF ColumnAt(df, column) = 0 THEN ColumnError("ValueError")
    ELSE
        LET all_text == AllText(df[ColumnAt(df, column)].vals)
            tokens == tokenize_text(all_text)
            word_freq == get_word_frequencies(all_text)
            total_words == FreqSum(tokens, word_freq)
            unique_words == Len(word_freq)
            top == Prefix(SortedByFreq(tokens, word_freq), TopWords)
            most_common == [i \in DOMAIN top |-> <<top[i], Count(tokens, top[i])>>]
        IN  IF total_words = 0 THEN ColumnError("ZeroDivisionError")
            ELSE [raised |-> FALSE, type |-> "dict", total_words |-> total_words,
                  unique_words |-> unique_words, most_common_words |-> most_common,
                  average_word_length |-> Quotient(WordLenSum(tokens, word_freq), total_words)]

\* The frames of the calls: a text column of up to MaxTextRows cells, with or
\* without an id column of numbers before it, or the id column alone
MaxTextRows == 3
TextCells == {TextCell(W_the), TextCell(W_cat), TextCell(W_cats), TextCell(W_42), NullCell}
TextFrames ==
    LET TextColumns(n) == {[name |-> "text", vals |-> v] : v \in [1..n -> TextCells]}
        IdColumn(n) == [name |-> "id", vals |-> [i \in 1..n |-> TextCell(W_42)]]
    IN  UNION {{<<t>> : t \in TextColumns(n)} \cup {<<IdColumn(n), t>> : t \in TextColumns(n)}
               \cup {<<IdColumn(n)>>} : n \in 0..MaxTextRows}
        \cup {<<>>}

ColumnCalls == {[fn |-> "analyze_text_column", df |-> f, column |-> c] :
                   f \in TextFrames, c \in {"text", "id", "title"}}

CallAnalyzeColumn ==
    /\ call.fn = "analyze_text_column"
    /\ ~ret.done
    /\ ret' = Done(analyze_text_column(call.df, call.column))
    /\ UNCHANGED <<webVars, cliVars, call>>

InitCol ==
    /\ WebOff
    /\ cli = CliOff
    /\ call \in ColumnCalls
    /\ ret = NotCalled

NextCol == CallAnalyzeColumn

SpecCol == InitCol /\ [][NextCol]_vars

-----------------------------------------------------------------------------
(* Claims about the web application and the agent *)

\* C1 (as stated): while a session has no dataset, nothing changes its
\* conversation history; asking a question only returns the fixed message.
C1_IdleAskLeavesHistory ==
    [][\A s \in Sessions :
          (cookie[s].data_path = None /\ cookie'[s].data_path = None)
              => cookie'[s].chat = cookie[s].chat]_vars

\* C2 (as stated): after an upload every history held for the session, the
\* chat list and the memory of the agent, is empty and the session is Ready.
C2_UploadResetsHistories ==
    [][\A s \in Sessions :
          (\E n \in ClientNames, c \in Contents : Upload(s, n, c))
              => /\ cookie'[s].chat = <<>>
                 /\ cookie'[s].data_path # None
                 /\ memory' = <<>>]_vars

\* What a session observes: its cookie, the dataset at its data_path, and the
\* memory of the agent that answers its questions
View(s) == <<cookie[s], FileAt(uploads, cookie[s].data_path), memory>>

\* The steps that belong to a request of session o
StepOf(o) ==
    \/ IndexGet(o)
    \/ \E q \in Questions : IndexPostNoData(o, q)
    \/ \E t \in Threads, q \in Questions : IndexPost(t, o, q)
    \/ \E t \in Threads : req[t].sid = o /\ AnalyzeLoad(t)
    \/ \E t \in Threads, out \in AgentOutcomes : req[t].sid = o /\ AgentRun(t, out)
    \/ \E n \in ClientNames, c \in Contents : Upload(o, n, c)

\* C3 (as stated): no operation of one session changes the dataset, the
\* history or the agent memory that another session observes.
C3_SessionsIsolated ==
    [][\A s \in Sessions, o \in Sessions :
          (o # s /\ StepOf(o)) => View(s)' = View(s)]_vars

\* C4 (as stated): at most one analyze call is in progress on the DataAgent
\* instance at any time.
C4_AnalyzeSerialized == Cardinality(InAnalyze) <= 1

\* C5: whatever pd.read_csv, the tools and the language model raise, analyze
\* returns (it does not raise) a non-empty text, the error text of the failure;
\* and so does DataAnalysisTool._run.
C5_NoErrorEscapes ==
    /\ cli.last # Pending =>
          /\ ~cli.last.raised
          /\ cli.last.text # ""
          /\ cli.body.raised => cli.last.text = "Error in analysis: " \o cli.body.text
    /\ ret.done => (~ret.val.raised /\ ret.val.text # "")

\* C5 witness: the language model failed with an empty message, and a direct
\* _run call failed inside, and both calls returned
C5_Witness ==
    /\ cli.body.raised /\ cli.body.text = "" /\ cli.last # Pending
    /\ call.data = NotAFrame /\ ret.done

\* A chat list q extends p by exactly one pair at the end
ExtendsByOne(p, q) == Len(q) = Len(p) + 1 /\ SubSeq(q, 1, Len(p)) = p

\* C6 (as stated): the chat of a session only grows by one pair at its end;
\* it shrinks only by the reset of an upload of that session.
C6_HistoryAppendOnly ==
    [][\A s \in Sessions :
          \/ cookie'[s].chat = cookie[s].chat
          \/ ExtendsByOne(cookie[s].chat, cookie'[s].chat)
          \/ \E n \in ClientNames, c \in Contents : Upload(s, n, c)]_vars

\* C7 (as stated): an upload whose file cannot be read as CSV leaves an Idle
\* session Idle.
C7_FailedLoadStaysIdle ==
    [][\A s \in Sessions, n \in ClientNames, c \in Contents :
          (/\ cookie[s].data_path = None
           /\ Upload(s, n, c)
           /\ ReadCsv(c, UPLOAD_FOLDER \o secure_filename(n)).raised)
              => cookie'[s].data_path = None]_vars

\* C8 (as stated): a missing path fails with FileNotFoundError, an existing
\* file with an unknown extension with ValueError, and only a parse failure of
\* a supported format is wrapped as the load error with path and cause.
C8_ThreeErrorKinds ==
    ret.done =>
        LET supported == LowerExt(call.path.ext) \in {".csv", ".json", ".xlsx", ".xls"}
        IN  /\ call.file = Missing => ret.val.type = "FileNotFoundError"
            /\ (call.file # Missing /\ ~supported) => ret.val.type = "ValueError"
            /\ (call.file \in ParseFailures /\ supported) =>
                  (ret.val.type = "Exception" /\ ret.val.cause = call.file)
            /\ ret.val.type = "Exception" => supported

\* C9 (as stated): the returned summary, separators included, is never longer
\* than max_length, and each of its sentences is a whole sentence of the text.
C9_SummaryWithinMaxLength ==
    ret.done =>
        /\ Len(ret.val.text) <= call.max_length
        /\ \A i \in DOMAIN ret.val.summary :
              \E j \in DOMAIN sent_tokenize(call.text) :
                  ret.val.summary[i] = sent_tokenize(call.text)[j]

\* C10 (as stated): similarity(a, a) = 1.0 for every non-empty text a,
\* similarity("", "") = 0.0, and similarity(a, b) = similarity(b, a).
C10_ReflexiveSymmetric ==
    ret.done =>
        /\ (call.text1 = call.text2 /\ call.text1 # <<>>) => IsOne(ret.val)
        /\ (call.text1 = <<>> /\ call.text2 = <<>>) => ret.val = Zero
        /\ ret.val = get_text_similarity(call.text2, call.text1)

\* C10 (amended): similarity(a, a) = 1.0 for every text a that has at least
\* one token after tokenization, 0.0 for every text a without tokens (the
\* empty text, and texts of stopwords, digits or punctuation only), and
\* similarity(a, b) = similarity(b, a).
C10_ReflexiveOnTokens ==
    ret.done =>
        /\ (call.text1 = call.text2 /\ tokenize_text(call.text1) # <<>>) => IsOne(ret.val)
        /\ (call.text1 = call.text2 /\ tokenize_text(call.text1) = <<>>) => ret.val = Zero
        /\ ret.val = get_text_similarity(call.text2, call.text1)

\* C10 witness: a non-empty text of a stopword and digits, compared with
\* itself, gave 0.0
C10_Witness ==
    /\ ret.done
    /\ call.text1 = JoinSp(<<W_the, W_42>>)
    /\ call.text2 = call.text1
    /\ ret.val = Zero

\* Position of the first occurrence of token w in a token sequence
FirstAt(tokens, w) == CHOOSE i \in DOMAIN tokens :
                          tokens[i] = w /\ \A j \in 1..(i - 1) : tokens[j] # w

\* C11: extract_keywords returns at most top_n tokens of the text, each once,
\* in non-increasing frequency; of two returned tokens of equal frequency the
\* one met first in the token sequence comes first; no token left out ranks
\* before a returned one; the documented example gives [cat, sat].
C11_KeywordsRanked ==
    ret.done =>
        LET tokens == tokenize_text(call.text)
            kw == ret.val
            Before(a, b) ==
                \/ Count(tokens, a) > Count(tokens, b)
                \/ Count(tokens, a) = Count(tokens, b) /\ FirstAt(tokens, a) < FirstAt(tokens, b)
        IN  /\ Len(kw) <= call.top_n
            /\ \A i \in DOMAIN kw : Count(tokens, kw[i]) > 0
            /\ \A i \in DOMAIN kw, j \in DOMAIN kw : i < j => kw[i] # kw[j] /\ Before(kw[i], kw[j])
            /\ \A w \in TokenSet(tokens) \ TokenSet(kw) :
                  Len(kw) = call.top_n /\ \A i \in DOMAIN kw : Before(kw[i], w)
            /\ (call.text = KwExample /\ call.top_n = 2) => kw = <<W_cat, W_sat>>

\* C11 witness: the documented example was called with top_n = 2 and the tie
\* of the three singletons was cut after the first of them
C11_Witness ==
    /\ ret.done
    /\ call.text = KwExample
    /\ call.top_n = 2
    /\ tokenize_text(call.text) = <<W_cat, W_sat, W_mat, W_cat, <<"r", "a", "n">> >>
    /\ ret.val = <<W_cat, W_sat>>

\* C12 (as stated): for every table T, get_data_info(preprocess_data(T))
\* reports zero missing values for every column that had at least one value
\* in T, and preprocess_data leaves T as it was.
C12_RoundTripNoMissing ==
    ret.done =>
        /\ ~ret.val.raised
        /\ \A c \in DOMAIN call.df :
              NullCount(call.df[c].vals) < Len(call.df[c].vals)
                  => ret.val.out.missing_values[c] = 0
        /\ ret.val.df = call.df

\* The sum of the lengths of the tokens: sum(len(w) * freq(w)) over the words
RECURSIVE LenSum(_)
LenSum(tokens) == IF tokens = <<>> THEN 0 ELSE Len(tokens[1]) + LenSum(Tail(tokens))

\* C13 (as stated): analyze_text_column fails only when the named column is
\* absent, with the column-not-found error; for every frame that has the
\* column, also one whose text yields no tokens, it returns a report with
\* total_words the number of tokens, unique_words the number of distinct
\* tokens, at most 10 most frequent words, and average_word_length =
\* sum(len(w) * freq(w)) / total_words.
C13_FailsOnlyOnAbsentColumn ==
    ret.done =>
        LET present == \E c \in DOMAIN call.df : call.df[c].name = call.column
            tokens == tokenize_text(AllText(call.df[ColumnAt(call.df, call.column)].vals))
        IN  /\ ret.val.raised <=> ~present
            /\ ret.val.raised => ret.val.type = "ValueError"
            /\ ~ret.val.raised =>
                  /\ ret.val.total_words = Len(tokens)
                  /\ ret.val.unique_words = Cardinality(TokenSet(tokens))
                  /\ Len(ret.val.most_common_words) <= TopWords
                  /\ ret.val.average_word_length = Quotient(LenSum(tokens), Len(tokens))

=============================================================================
